---- MODULE Spec2Model ----
(***************************************************************************)
(* Model of acstore/profilers.py: the CPUTimeMeasurement primitive and the *)
(* StorageProfiler that writes tab-separated samples to a gzip stream.     *)
(*                                                                         *)
(* Strings are sequences of characters (one-character TLA+ strings, the    *)
(* character e-acute being written "U+00E9"); the content of a stream is   *)
(* the sequence of bytes handed to its write().  Times are integers in     *)
(* units of 1/TicksPerMicro microseconds.  The Python value None is the    *)
(* integer -1, which no clock value and no stream handle ever takes.       *)
(***************************************************************************)
EXTENDS Integers, Sequences, FiniteSets, TLC

VARIABLES
  profile_measurements,  \* self._profile_measurements: name -> CPUTimeMeasurement
  sample_file,           \* self._sample_file: None or a handle (index in streams)
  start_time,            \* self._start_time
  streams,               \* every stream gzip.open returned, in order of opening
  wall,                  \* the value time.time() returns now
  perf,                  \* the value time.perf_counter() returns now
  lastCall,              \* the most recent call: operation, name, outcome
  cycles,                \* history: per name, the Start/Stop cycles seen so far
  session,               \* history: last successful Start/Stop, Stop seen or not
  calls,                 \* history: the number of calls made so far
  caller                 \* a second caller: where it is in its StartTiming

vars == <<profile_measurements, sample_file, start_time, streams, wall, perf,
          lastCall, cycles, session, calls, caller>>

\* ---------------------------------------------------------------- bounds
MaxCalls == 4
MaxPerf == 2
WallEpoch == 1
TicksPerMicro == 2

\* ---------------------------------------------------------------- inputs
None == -1

TAB == "\t"
NL == "\n"

ProfileNames == {<<"s">>, <<"t">>}
Operations == {<<"r">>}
Descriptions == {<<"c">>, <<"U+00E9", TAB, NL>>}
DataSizes == {12}
CompressedDataSizes == {5}

\* ------------------------------------------------------- pure functions
\* codecs.encode(c, 'utf-8') of one character.
Utf8Char(c) ==
  CASE c = TAB -> <<9>>
    [] c = NL -> <<10>>
    [] c = " " -> <<32>>
    [] c = "-" -> <<45>>
    [] c = "." -> <<46>>
    [] c = "0" -> <<48>>
    [] c = "1" -> <<49>>
    [] c = "2" -> <<50>>
    [] c = "3" -> <<51>>
    [] c = "4" -> <<52>>
    [] c = "5" -> <<53>>
    [] c = "6" -> <<54>>
    [] c = "7" -> <<55>>
    [] c = "8" -> <<56>>
    [] c = "9" -> <<57>>
    [] c = "C" -> <<67>>
    [] c = "D" -> <<68>>
    [] c = "N" -> <<78>>
    [] c = "O" -> <<79>>
    [] c = "P" -> <<80>>
    [] c = "T" -> <<84>>
    [] c = "a" -> <<97>>
    [] c = "c" -> <<99>>
    [] c = "d" -> <<100>>
    [] c = "e" -> <<101>>
    [] c = "g" -> <<103>>
    [] c = "i" -> <<105>>
    [] c = "m" -> <<109>>
    [] c = "n" -> <<110>>
    [] c = "o" -> <<111>>
    [] c = "p" -> <<112>>
    [] c = "r" -> <<114>>
    [] c = "s" -> <<115>>
    [] c = "t" -> <<116>>
    [] c = "z" -> <<122>>
    [] c = "U+00E9" -> <<195, 169>>

\* codecs.encode(content, 'utf-8')
RECURSIVE Utf8Encode(_)
Utf8Encode(content) ==
  IF content = <<>> THEN <<>>
  ELSE Utf8Char(Head(content)) \o Utf8Encode(Tail(content))

Digit(d) ==
  CASE d = 0 -> "0" [] d = 1 -> "1" [] d = 2 -> "2" [] d = 3 -> "3"
    [] d = 4 -> "4" [] d = 5 -> "5" [] d = 6 -> "6" [] d = 7 -> "7"
    [] d = 8 -> "8" [] d = 9 -> "9"

\* The decimal digits of a natural number, without padding.
RECURSIVE Digits(_)
Digits(n) ==
  IF n < 10 THEN <<Digit(n)>> ELSE Digits(n \div 10) \o <<Digit(n % 10)>>

\* '{:d}'.format(n)
FormatD(n) == IF n < 0 THEN <<"-">> \o Digits(-n) ELSE Digits(n)

\* The decimal digits of n left-padded with zeros to the given width.
RECURSIVE ZeroPad(_, _)
ZeroPad(n, width) ==
  IF width = 0 THEN <<>>
  ELSE ZeroPad(n \div 10, width - 1) \o <<Digit(n % 10)>>

\* A time in ticks rounded to whole microseconds, ties to even.
RoundMicros(x) ==
  LET q == x \div TicksPerMicro
      r == x % TicksPerMicro
  IN  IF 2 * r < TicksPerMicro THEN q
      ELSE IF 2 * r > TicksPerMicro THEN q + 1
      ELSE IF q % 2 = 0 THEN q ELSE q + 1

\* '{:f}'.format(x): fixed point with six fractional digits.
FormatF(x) ==
  LET m == RoundMicros(IF x < 0 THEN -x ELSE x)
      sign == IF x < 0 /\ m > 0 THEN <<"-">> ELSE <<>>
  IN  sign \o Digits(m \div 1000000) \o <<".">> \o ZeroPad(m % 1000000, 6)

FILE_HEADER ==
  <<"T", "i", "m", "e", TAB, "N", "a", "m", "e", TAB,
    "O", "p", "e", "r", "a", "t", "i", "o", "n", TAB,
    "D", "e", "s", "c", "r", "i", "p", "t", "i", "o", "n", TAB,
    "P", "r", "o", "c", "e", "s", "s", "i", "n", "g", " ",
    "t", "i", "m", "e", TAB,
    "D", "a", "t", "a", " ", "s", "i", "z", "e", TAB,
    "C", "o", "m", "p", "r", "e", "s", "s", "e", "d", " ",
    "d", "a", "t", "a", " ", "s", "i", "z", "e", NL>>

\* ------------------------------------------------- CPUTimeMeasurement
\* CPUTimeMeasurement.__init__
NewMeasurement ==
  [start_cpu_time |-> None, start_sample_time |-> None, total_cpu_time |-> None]

\* SampleStart that keeps the time accumulated so far.
SampleStart_KeepsTotal(m, perfNow, wallNow) ==
  [m EXCEPT !.start_cpu_time = perfNow,
            !.start_sample_time = wallNow,
            !.total_cpu_time = IF @ = None THEN 0 ELSE @]

\* CPUTimeMeasurement.SampleStart, called when the clocks read perfNow, wallNow.
SampleStart(m, perfNow, wallNow) ==
  [m EXCEPT !.start_cpu_time = perfNow,
            !.start_sample_time = wallNow,
            !.total_cpu_time = 0]

\* SampleStop that adds the monotonic time itself, not the time elapsed.
SampleStop_AddsNow(m, perfNow) ==
  IF m.start_cpu_time # None
  THEN [m EXCEPT !.total_cpu_time = @ + perfNow]
  ELSE m

\* SampleStop that pauses: the next SampleStop counts from this one.
SampleStop_MovesReference(m, perfNow) ==
  IF m.start_cpu_time # None
  THEN [m EXCEPT !.total_cpu_time = @ + (perfNow - m.start_cpu_time),
                 !.start_cpu_time = perfNow]
  ELSE m

\* CPUTimeMeasurement.SampleStop, called when perf_counter reads perfNow.
SampleStop(m, perfNow) ==
  IF m.start_cpu_time # None
  THEN [m EXCEPT !.total_cpu_time = @ + (perfNow - m.start_cpu_time)]
  ELSE m

\* ----------------------------------------------------- StorageProfiler
\* dict.get(profile_name) followed by "if measurements:".
HasMeasurement(pm, profile_name) == profile_name \in DOMAIN pm

\* An assignment that rebinds the map to one holding only the new entry.
SetItem_Replaces(pm, profile_name, m) == [n \in {profile_name} |-> m]

\* An assignment to a measurement that all the names share.
SetItem_Shared(pm, profile_name, m) ==
  [n \in DOMAIN pm \cup {profile_name} |-> m]

\* pm[profile_name] = m
SetItem(pm, profile_name, m) ==
  [n \in DOMAIN pm \cup {profile_name} |->
     IF n = profile_name THEN m ELSE pm[n]]

\* Sample that stamps every record with the time of the call.
SampleValues_UsesNow(pm, profile_name, wallNow) ==
  IF HasMeasurement(pm, profile_name)
  THEN [sample_time |-> wallNow,
        processing_time |-> pm[profile_name].total_cpu_time]
  ELSE [sample_time |-> wallNow, processing_time |-> 0]

\* Sample that does not read the clock for an untimed name.
SampleValues_UntimedZero(pm, profile_name, wallNow) ==
  IF HasMeasurement(pm, profile_name)
  THEN [sample_time |-> pm[profile_name].start_sample_time,
        processing_time |-> pm[profile_name].total_cpu_time]
  ELSE [sample_time |-> 0, processing_time |-> 0]

\* Sample: the sample time and the processing time that go into the record.
SampleValues(pm, profile_name, wallNow) ==
  IF HasMeasurement(pm, profile_name)
  THEN [sample_time |-> pm[profile_name].start_sample_time,
        processing_time |-> pm[profile_name].total_cpu_time]
  ELSE [sample_time |-> wallNow, processing_time |-> 0]

\* Sample: the format() call that builds the line.
FormatSample(sample_time, profile_name, operation, description, processing_time, data_size, compressed_data_size) ==
  FormatF(sample_time) \o <<TAB>> \o profile_name \o <<TAB>> \o operation
    \o <<TAB>> \o description \o <<TAB>> \o FormatF(processing_time)
    \o <<TAB>> \o FormatD(data_size) \o <<TAB>>
    \o FormatD(compressed_data_size) \o <<NL>>

\* _WritesString on an open stream: the bytes the stream holds afterwards.
WritesString(stream, content) ==
  [stream EXCEPT !.content = @ \o Utf8Encode(content)]

\* gzip.open(filename, 'wb'): a new, empty, open stream.
NewStream == [closed |-> FALSE, content |-> <<>>, samples |-> 0]

\* A call is made: the model follows the profiler for MaxCalls calls.
CountCall == calls < MaxCalls /\ calls' = calls + 1

\* The record of a call: the operation, the profile name it was given (if
\* any), its other arguments, its outcome and the bytes it added to the
\* current stream.
CallRecord(op, result, profile_name, args, written) ==
  [op |-> op, result |-> result, profile_name |-> profile_name,
   args |-> args, written |-> written]

NameCall(op, result, profile_name) ==
  CallRecord(op, result, profile_name, <<>>, <<>>)

PlainCall(op, result) == NameCall(op, result, <<>>)

\* What new holds after old.
Appended(old, new) == SubSeq(new, Len(old) + 1, Len(new))

\* _WritesString: the write() on self._sample_file raises when it is None.
WritesStringResult(file) == IF file = None THEN "AttributeError" ELSE "ok"

\* History of the StartTiming/StopTiming cycles of one name.
\* k, sum and last describe the consecutive StartTiming; StopTiming cycles;
\* t0, stops and stopSum describe the StopTiming calls since the most recent
\* StartTiming: its monotonic time, their number and the sum of their
\* distances to t0.
NoCycles ==
  [phase |-> "none", k |-> 0, sum |-> 0, last |-> 0, t0 |-> 0,
   stops |-> 0, stopSum |-> 0]

CycleStart(c, perfNow) ==
  IF c.phase \in {"none", "stopped"}
  THEN [c EXCEPT !.phase = "started", !.t0 = perfNow,
                 !.stops = 0, !.stopSum = 0]
  ELSE [NoCycles EXCEPT !.phase = "started", !.t0 = perfNow]

CycleStop(c, perfNow) ==
  CASE c.phase = "started" ->
         [c EXCEPT !.phase = "stopped", !.k = @ + 1,
                   !.sum = @ + (perfNow - c.t0), !.last = perfNow - c.t0,
                   !.stops = @ + 1, !.stopSum = @ + (perfNow - c.t0)]
    [] c.phase \in {"stopped", "broken"} ->
         [c EXCEPT !.phase = "broken",
                   !.stops = @ + 1, !.stopSum = @ + (perfNow - c.t0)]
    [] OTHER -> c

\* The second caller is in no call; seen are the operations of the first
\* caller that met an unset value during the call of the second.
Idle == [pc |-> "idle", profile_name |-> <<>>, seen |-> {}]

\* A call that raises TypeError met an unset value: the second caller, if it
\* is inside StartTiming, is the one that left it unset.
Observe ==
  caller' =
    IF calls' # calls /\ lastCall'.result = "TypeError"
    THEN [caller EXCEPT !.seen = @ \cup {lastCall'.op}]
    ELSE caller

Init ==
  /\ profile_measurements = <<>>
  /\ sample_file = None
  /\ start_time = None
  /\ streams = <<>>
  /\ wall = WallEpoch
  /\ perf = 0
  /\ lastCall = PlainCall("__init__", "ok")
  /\ cycles = [n \in ProfileNames |-> NoCycles]
  /\ session = [last |-> "none", stopped |-> FALSE]
  /\ calls = 0
  /\ caller = Idle

\* Start that opens the stream but does not keep the handle.
Start_DropsHandle(opens) ==
  /\ CountCall
  /\ IF opens
     THEN /\ streams' = Append(streams, WritesString(NewStream, FILE_HEADER))
          /\ start_time' = wall
          /\ session' = [session EXCEPT !.last = "Start"]
          /\ lastCall' = PlainCall("Start", "ok")
          /\ UNCHANGED sample_file
     ELSE /\ lastCall' = PlainCall("Start", "OSError")
          /\ UNCHANGED <<streams, sample_file, start_time, session>>
  /\ UNCHANGED <<profile_measurements, wall, perf, cycles>>
  /\ Observe

\* Start that closes the stream it is about to replace.
Start_ClosesPrevious(opens) ==
  /\ CountCall
  /\ IF opens
     THEN /\ streams' =
               Append([i \in 1..Len(streams) |->
                         IF i = sample_file
                         THEN [streams[i] EXCEPT !.closed = TRUE]
                         ELSE streams[i]],
                      WritesString(NewStream, FILE_HEADER))
          /\ sample_file' = Len(streams) + 1
          /\ start_time' = wall
          /\ session' = [session EXCEPT !.last = "Start"]
          /\ lastCall' = PlainCall("Start", "ok")
     ELSE /\ lastCall' = PlainCall("Start", "OSError")
          /\ UNCHANGED <<streams, sample_file, start_time, session>>
  /\ UNCHANGED <<profile_measurements, wall, perf, cycles>>
  /\ Observe

\* Start that records the start time before it opens the stream.
Start_RecordsTimeFirst(opens) ==
  /\ CountCall
  /\ start_time' = wall
  /\ IF opens
     THEN /\ streams' = Append(streams, WritesString(NewStream, FILE_HEADER))
          /\ sample_file' = Len(streams) + 1
          /\ session' = [session EXCEPT !.last = "Start"]
          /\ lastCall' = PlainCall("Start", "ok")
     ELSE /\ lastCall' = PlainCall("Start", "OSError")
          /\ UNCHANGED <<streams, sample_file, session>>
  /\ UNCHANGED <<profile_measurements, wall, perf, cycles>>
  /\ Observe

\* StorageProfiler.Start; opens says whether gzip.open succeeds.
Start(opens) ==
  /\ CountCall
  /\ IF opens
     THEN /\ streams' = Append(streams, WritesString(NewStream, FILE_HEADER))
          /\ sample_file' = Len(streams) + 1
          /\ start_time' = wall
          /\ session' = [session EXCEPT !.last = "Start"]
          /\ lastCall' = PlainCall("Start", "ok")
     ELSE /\ lastCall' = PlainCall("Start", "OSError")
          /\ UNCHANGED <<streams, sample_file, start_time, session>>
  /\ UNCHANGED <<profile_measurements, wall, perf, cycles>>
  /\ Observe

\* Stop that closes the stream but keeps the handle.
Stop_KeepsHandle ==
  /\ CountCall
  /\ IF sample_file = None
     THEN /\ lastCall' = PlainCall("Stop", "AttributeError")
          /\ UNCHANGED <<streams, sample_file, session>>
     ELSE /\ streams' = [streams EXCEPT ![sample_file].closed = TRUE]
          /\ UNCHANGED sample_file
          /\ session' = [last |-> "Stop", stopped |-> TRUE]
          /\ lastCall' = PlainCall("Stop", "ok")
  /\ UNCHANGED <<profile_measurements, start_time, wall, perf, cycles>>
  /\ Observe

\* Stop that forgets the measurements of the session.
Stop_ClearsMeasurements ==
  /\ CountCall
  /\ IF sample_file = None
     THEN /\ lastCall' = PlainCall("Stop", "AttributeError")
          /\ UNCHANGED <<streams, sample_file, session, profile_measurements>>
     ELSE /\ streams' = [streams EXCEPT ![sample_file].closed = TRUE]
          /\ sample_file' = None
          /\ profile_measurements' = <<>>
          /\ session' = [last |-> "Stop", stopped |-> TRUE]
          /\ lastCall' = PlainCall("Stop", "ok")
  /\ UNCHANGED <<start_time, wall, perf, cycles>>
  /\ Observe

\* StorageProfiler.Stop
Stop ==
  /\ CountCall
  /\ IF sample_file = None
     THEN /\ lastCall' = PlainCall("Stop", "AttributeError")
          /\ UNCHANGED <<streams, sample_file, session>>
     ELSE /\ streams' = [streams EXCEPT ![sample_file].closed = TRUE]
          /\ sample_file' = None
          /\ session' = [last |-> "Stop", stopped |-> TRUE]
          /\ lastCall' = PlainCall("Stop", "ok")
  /\ UNCHANGED <<profile_measurements, start_time, wall, perf, cycles>>
  /\ Observe

\* StartTiming that starts only the measurements it finds in the map.
StartTiming_StartsOnlyKnown(profile_name) ==
  /\ CountCall
  /\ profile_measurements' =
       IF profile_name \notin DOMAIN profile_measurements
       THEN SetItem(profile_measurements, profile_name, NewMeasurement)
       ELSE SetItem(profile_measurements, profile_name,
              SampleStart(profile_measurements[profile_name], perf, wall))
  /\ cycles' = [cycles EXCEPT ![profile_name] = CycleStart(@, perf)]
  /\ lastCall' = NameCall("StartTiming", "ok", profile_name)
  /\ UNCHANGED <<sample_file, start_time, streams, wall, perf, session>>
  /\ Observe

\* StorageProfiler.StartTiming
StartTiming(profile_name) ==
  /\ CountCall
  /\ LET pm == IF profile_name \notin DOMAIN profile_measurements
               THEN SetItem(profile_measurements, profile_name, NewMeasurement)
               ELSE profile_measurements
     IN  profile_measurements' =
           SetItem(pm, profile_name, SampleStart(pm[profile_name], perf, wall))
  /\ cycles' = [cycles EXCEPT ![profile_name] = CycleStart(@, perf)]
  /\ lastCall' = NameCall("StartTiming", "ok", profile_name)
  /\ UNCHANGED <<sample_file, start_time, streams, wall, perf, session>>
  /\ Observe

\* StopTiming that creates the measurement it does not find.
StopTiming_Creates(profile_name) ==
  /\ CountCall
  /\ LET pm == IF HasMeasurement(profile_measurements, profile_name)
               THEN profile_measurements
               ELSE SetItem(profile_measurements, profile_name, NewMeasurement)
     IN  profile_measurements' =
           SetItem(pm, profile_name, SampleStop(pm[profile_name], perf))
  /\ cycles' = [cycles EXCEPT ![profile_name] = CycleStop(@, perf)]
  /\ lastCall' = NameCall("StopTiming", "ok", profile_name)
  /\ UNCHANGED <<sample_file, start_time, streams, wall, perf, session>>
  /\ Observe

\* SampleStop: the += on a total_cpu_time that is None raises.
SampleStopResult(pm, profile_name) ==
  IF /\ HasMeasurement(pm, profile_name)
     /\ pm[profile_name].start_cpu_time # None
     /\ pm[profile_name].total_cpu_time = None
  THEN "TypeError"
  ELSE "ok"

\* StorageProfiler.StopTiming
StopTiming(profile_name) ==
  /\ CountCall
  /\ IF /\ HasMeasurement(profile_measurements, profile_name)
        /\ SampleStopResult(profile_measurements, profile_name) = "ok"
     THEN LET m == SampleStop(profile_measurements[profile_name], perf)
          IN  profile_measurements' =
                SetItem(profile_measurements, profile_name, m)
     ELSE UNCHANGED profile_measurements
  /\ cycles' =
       IF SampleStopResult(profile_measurements, profile_name) = "ok"
       THEN [cycles EXCEPT ![profile_name] = CycleStop(@, perf)]
       ELSE cycles
  /\ lastCall' =
       NameCall("StopTiming",
         SampleStopResult(profile_measurements, profile_name), profile_name)
  /\ UNCHANGED <<sample_file, start_time, streams, wall, perf, session>>
  /\ Observe

\* Sample: the call of _WritesString with the formatted line, given the
\* outcome of the call; the line is added to the stream when it succeeds.
SampleWrites(profile_name, args, line, result) ==
  IF result = "ok"
  THEN LET stream == WritesString(streams[sample_file], line)
       IN  /\ streams' = [streams EXCEPT ![sample_file] =
                            [stream EXCEPT !.samples = @ + 1]]
           /\ lastCall' =
                CallRecord("Sample", result, profile_name, args,
                  Appended(streams[sample_file].content, stream.content))
  ELSE /\ lastCall' = CallRecord("Sample", result, profile_name, args, <<>>)
       /\ UNCHANGED streams

\* Sample: the outcome of the call, given the values to format.
SampleResult(v) ==
  IF v.sample_time = None \/ v.processing_time = None THEN "TypeError"
  ELSE WritesStringResult(sample_file)

\* Sample that consumes the accumulated time of the name it samples.
Sample_Consumes(profile_name, operation, description, data_size, compressed_data_size) ==
  LET v == SampleValues(profile_measurements, profile_name, wall)
  IN  /\ CountCall
      /\ SampleWrites(profile_name,
           <<operation, description, data_size, compressed_data_size>>,
           FormatSample(v.sample_time, profile_name, operation, description,
             v.processing_time, data_size, compressed_data_size),
           SampleResult(v))
      /\ profile_measurements' =
           IF HasMeasurement(profile_measurements, profile_name)
           THEN [profile_measurements EXCEPT
                   ![profile_name].total_cpu_time = 0]
           ELSE profile_measurements
      /\ UNCHANGED <<sample_file, start_time, wall, perf, cycles, session>>
      /\ Observe

\* Sample that skips the write, without an error, when there is no stream.
Sample_SkipsWithoutStream(profile_name, operation, description, data_size, compressed_data_size) ==
  LET v == SampleValues(profile_measurements, profile_name, wall)
  IN  /\ CountCall
      /\ IF sample_file = None
         THEN /\ lastCall' =
                   CallRecord("Sample", "ok", profile_name,
                     <<operation, description, data_size,
                       compressed_data_size>>, <<>>)
              /\ UNCHANGED streams
         ELSE SampleWrites(profile_name,
                <<operation, description, data_size, compressed_data_size>>,
                FormatSample(v.sample_time, profile_name, operation,
                  description, v.processing_time, data_size,
                  compressed_data_size),
                SampleResult(v))
      /\ UNCHANGED <<profile_measurements, sample_file, start_time, wall,
                     perf, cycles, session>>
      /\ Observe

\* StorageProfiler.Sample
Sample(profile_name, operation, description, data_size, compressed_data_size) ==
  LET v == SampleValues(profile_measurements, profile_name, wall)
  IN  /\ CountCall
      /\ SampleWrites(profile_name,
           <<operation, description, data_size, compressed_data_size>>,
           FormatSample(v.sample_time, profile_name, operation, description,
             v.processing_time, data_size, compressed_data_size),
           SampleResult(v))
      /\ UNCHANGED <<profile_measurements, sample_file, start_time, wall,
                     perf, cycles, session>>
      /\ Observe

\* Time passes between two calls: both clocks move on by one tick.
Tick ==
  /\ perf < MaxPerf
  /\ perf' = perf + 1
  /\ wall' = wall + 1
  /\ UNCHANGED <<profile_measurements, sample_file, start_time, streams,
                 lastCall, cycles, session, calls>>
  /\ Observe

\* One caller: every call runs from its beginning to its end.
Next ==
  \/ \E opens \in BOOLEAN : Start(opens)
  \/ Stop
  \/ \E n \in ProfileNames : StartTiming(n)
  \/ \E n \in ProfileNames : StopTiming(n)
  \/ \E n \in ProfileNames, o \in Operations, d \in Descriptions,
        ds \in DataSizes, cs \in CompressedDataSizes : Sample(n, o, d, ds, cs)
  \/ Tick

Spec == Init /\ [][Next]_vars

\* ---------------------------------------------- two callers, no lock
\* The second caller calls StartTiming(profile_name) and runs it statement
\* by statement, the calls of the first caller coming in between.

\* StartTiming, lines 124-125: the name is inserted if it is not in the map.
TimingInsert(profile_name) ==
  /\ caller.pc = "idle"
  /\ CountCall
  /\ lastCall' = NameCall("StartTiming", "ok", profile_name)
  /\ profile_measurements' =
       IF profile_name \notin DOMAIN profile_measurements
       THEN SetItem(profile_measurements, profile_name, NewMeasurement)
       ELSE profile_measurements
  /\ caller' = [pc |-> "ref", profile_name |-> profile_name, seen |-> {}]
  /\ UNCHANGED <<sample_file, start_time, streams, wall, perf, cycles,
                 session>>

\* SampleStart, line 27
TimingSetReference ==
  /\ caller.pc = "ref"
  /\ profile_measurements' =
       [profile_measurements EXCEPT
          ![caller.profile_name].start_cpu_time = perf]
  /\ cycles' = [cycles EXCEPT ![caller.profile_name] = CycleStart(@, perf)]
  /\ caller' = [caller EXCEPT !.pc = "time"]
  /\ UNCHANGED <<sample_file, start_time, streams, wall, perf, lastCall,
                 session, calls>>

\* SampleStart, line 28
TimingSetSampleTime ==
  /\ caller.pc = "time"
  /\ profile_measurements' =
       [profile_measurements EXCEPT
          ![caller.profile_name].start_sample_time = wall]
  /\ caller' = [caller EXCEPT !.pc = "total"]
  /\ UNCHANGED <<sample_file, start_time, streams, wall, perf, lastCall,
                 cycles, session, calls>>

\* SampleStart that returns without the assignment of line 29.
TimingSetTotal_Skips ==
  /\ caller.pc = "total"
  /\ caller' = [caller EXCEPT !.pc = "idle"]
  /\ UNCHANGED <<profile_measurements, sample_file, start_time, streams,
                 wall, perf, lastCall, cycles, session, calls>>

\* SampleStart, line 29, and the return of StartTiming; the call was counted
\* when it began.
TimingSetTotal ==
  /\ caller.pc = "total"
  /\ profile_measurements' =
       [profile_measurements EXCEPT
          ![caller.profile_name].total_cpu_time = 0]
  /\ caller' = [caller EXCEPT !.pc = "idle"]
  /\ UNCHANGED <<sample_file, start_time, streams, wall, perf, lastCall,
                 cycles, session, calls>>

\* The calls of the first caller are those of Next with a Start that opens
\* its file and a description without tab or newline; the second caller
\* times one name, which the first caller uses too.
NextConcurrent ==
  \/ Start(TRUE)
  \/ Stop
  \/ \E n \in ProfileNames : StartTiming(n)
  \/ \E n \in ProfileNames : StopTiming(n)
  \/ \E n \in ProfileNames, o \in Operations, ds \in DataSizes,
        cs \in CompressedDataSizes : Sample(n, o, <<"c">>, ds, cs)
  \/ Tick
  \/ TimingInsert(<<"s">>)
  \/ TimingSetReference
  \/ TimingSetSampleTime
  \/ TimingSetTotal

SpecConcurrent == Init /\ [][NextConcurrent]_vars

\* ------------------------------------------ reading the written bytes
\* bytes.split(sep): the pieces of bs between the occurrences of sep.
SplitOn(bs, sep) ==
  LET seps == {i \in 1..Len(bs) : bs[i] = sep}
      n == Cardinality(seps)
      at(k) == IF k = 0 THEN 0
               ELSE IF k = n + 1 THEN Len(bs) + 1
               ELSE CHOOSE i \in seps :
                      Cardinality({j \in seps : j < i}) = k - 1
  IN  [k \in 1..(n + 1) |-> SubSeq(bs, at(k - 1) + 1, at(k) - 1)]

\* The Time column of a record: everything before its first tab.
TimeField(record) == Head(SplitOn(record, 9))

\* The Processing time column of a record: the third column from the end
\* (the two columns after it are integers).
ProcessingTimeField(record) ==
  LET fields == SplitOn(record, 9)
  IN  IF Len(fields) < 3 THEN <<>> ELSE fields[Len(fields) - 2]

\* The bytes of the text 0.000000
ZeroSeconds == <<48, 46, 48, 48, 48, 48, 48, 48>>

\* The step is a call of the operation op.
CallOf(op) == calls' = calls + 1 /\ lastCall'.op = op

\* ------------------------------------------------------------- claims

\* C1: Sample(n, ...) for a name n that has a measurement, while the stream
\* is open, appends to the stream a record whose Time column is the
\* formatted startSampleTime of n and whose Processing time column is the
\* formatted totalCPUTime of n, both as they are when Sample is called.
C1_SampleTimedUsesMeasurement ==
  [][(/\ CallOf("Sample")
      /\ sample_file # None
      /\ lastCall'.profile_name \in DOMAIN profile_measurements)
     => LET m == profile_measurements[lastCall'.profile_name]
            old == streams[sample_file].content
            new == streams'[sample_file].content
        IN  /\ lastCall'.result = "ok"
            /\ SubSeq(new, 1, Len(old)) = old
            /\ Appended(old, new) # <<>>
            /\ TimeField(Appended(old, new)) =
                 Utf8Encode(FormatF(m.start_sample_time))
            /\ ProcessingTimeField(Appended(old, new)) =
                 Utf8Encode(FormatF(m.total_cpu_time))]_vars

\* A timed name was sampled when neither the wall clock nor the time elapsed
\* since its StartTiming formats like its startSampleTime, and its
\* accumulated time is not zero.
C1_Witness ==
  /\ lastCall.op = "Sample"
  /\ lastCall.result = "ok"
  /\ lastCall.profile_name \in DOMAIN profile_measurements
  /\ LET m == profile_measurements[lastCall.profile_name]
     IN  /\ FormatF(m.start_sample_time) # FormatF(wall)
         /\ FormatF(m.start_sample_time) # FormatF(perf - m.start_cpu_time)
         /\ FormatF(m.total_cpu_time) # FormatF(0)
         /\ TimeField(lastCall.written) =
              Utf8Encode(FormatF(m.start_sample_time))

\* C2: Sample(n, ...) for a name n for which StartTiming was never called,
\* while the stream is open, appends a record whose Processing time column
\* is 0.000000 and whose Time column is the formatted wall-clock time of
\* the call.
C2_SampleUntimedUsesNow ==
  [][(/\ CallOf("Sample")
      /\ sample_file # None
      /\ cycles[lastCall'.profile_name].phase = "none")
     => LET old == streams[sample_file].content
            new == streams'[sample_file].content
        IN  /\ lastCall'.result = "ok"
            /\ SubSeq(new, 1, Len(old)) = old
            /\ TimeField(Appended(old, new)) = Utf8Encode(FormatF(wall))
            /\ ProcessingTimeField(Appended(old, new)) = ZeroSeconds]_vars

\* An untimed name was sampled at a wall-clock time that does not format as
\* zero, while the other name has a measurement.
C2_Witness ==
  /\ lastCall.op = "Sample"
  /\ lastCall.result = "ok"
  /\ cycles[lastCall.profile_name].phase = "none"
  /\ lastCall.profile_name \notin DOMAIN profile_measurements
  /\ DOMAIN profile_measurements # {}
  /\ TimeField(lastCall.written) # ZeroSeconds
  /\ ProcessingTimeField(lastCall.written) = ZeroSeconds

\* C3 as stated: Sample leaves the measurements as they are, and two
\* consecutive successful Sample calls for the same name, with no other call
\* in between, write the same Time and Processing time columns.
C3_Original ==
  [][CallOf("Sample")
     => /\ profile_measurements' = profile_measurements
        /\ (/\ lastCall.op = "Sample"
            /\ lastCall.result = "ok"
            /\ lastCall'.result = "ok"
            /\ lastCall'.profile_name = lastCall.profile_name)
           => /\ TimeField(lastCall'.written) = TimeField(lastCall.written)
              /\ ProcessingTimeField(lastCall'.written) =
                   ProcessingTimeField(lastCall.written)]_vars

\* C3 amended: Sample leaves the measurements as they are (it creates none
\* for an untimed name); consecutive successful Sample calls for the same
\* name write the same Processing time column, and the same Time column
\* when the name has a measurement.
C3_SampleKeepsMeasurements ==
  [][CallOf("Sample")
     => /\ profile_measurements' = profile_measurements
        /\ (/\ lastCall.op = "Sample"
            /\ lastCall.result = "ok"
            /\ lastCall'.result = "ok"
            /\ lastCall'.profile_name = lastCall.profile_name)
           => /\ ProcessingTimeField(lastCall'.written) =
                   ProcessingTimeField(lastCall.written)
              /\ lastCall.profile_name \in DOMAIN profile_measurements
                 => TimeField(lastCall'.written) =
                      TimeField(lastCall.written)]_vars

\* A timed name was sampled twice on the same stream, the clocks having
\* moved on since its StartTiming.
C3_Witness ==
  /\ lastCall.op = "Sample"
  /\ lastCall.result = "ok"
  /\ lastCall.profile_name \in DOMAIN profile_measurements
  /\ sample_file # None
  /\ streams[sample_file].samples >= 2
  /\ LET m == profile_measurements[lastCall.profile_name]
     IN  /\ FormatF(m.start_sample_time) # FormatF(wall)
         /\ TimeField(lastCall.written) =
              Utf8Encode(FormatF(m.start_sample_time))

\* C4: StartTiming(n), whatever the state before, leaves n in the map with
\* totalCPUTime zero, startSampleTime the wall-clock time of the call and
\* the monotonic reference the monotonic time of the call.
C4_StartTimingResets ==
  [][CallOf("StartTiming")
     => /\ lastCall'.result = "ok"
        /\ lastCall'.profile_name \in DOMAIN profile_measurements'
        /\ profile_measurements'[lastCall'.profile_name] =
             [start_cpu_time |-> perf, start_sample_time |-> wall,
              total_cpu_time |-> 0]]_vars

\* StartTiming(n) was called for a name that had accumulated time, at a later
\* time than its first StartTiming, with the stream open.
C4_Witness ==
  /\ lastCall.op = "StartTiming"
  /\ sample_file # None
  /\ LET n == lastCall.profile_name
     IN  /\ cycles[n].k >= 1
         /\ cycles[n].sum > 0
         /\ cycles[n].phase = "started"
         /\ profile_measurements[n].total_cpu_time = 0
         /\ profile_measurements[n].start_cpu_time > 0

\* C5 as stated: after k >= 1 consecutive cycles StartTiming(n); work;
\* StopTiming(n), the totalCPUTime of n is the sum of the k deltas, each the
\* monotonic time at the StopTiming minus that at the StartTiming of its
\* cycle.
C5_Original ==
  \A n \in ProfileNames :
    (cycles[n].phase = "stopped" /\ cycles[n].k >= 1)
    => profile_measurements[n].total_cpu_time = cycles[n].sum

\* C5 amended: after k >= 1 such cycles the totalCPUTime of n is the delta of
\* the last cycle alone, every StartTiming(n) having reset it to zero.
C5_TotalIsLastDelta ==
  \A n \in ProfileNames :
    (cycles[n].phase = "stopped" /\ cycles[n].k >= 1)
    => /\ n \in DOMAIN profile_measurements
       /\ profile_measurements[n].total_cpu_time = cycles[n].last

\* Two cycles were completed for a name, both taking time.
C5_Witness ==
  \E n \in ProfileNames :
    /\ cycles[n].phase = "stopped"
    /\ cycles[n].k = 2
    /\ cycles[n].last > 0
    /\ cycles[n].sum > cycles[n].last
    /\ lastCall = NameCall("StopTiming", "ok", n)

\* The lines of a newline-terminated text, without their newlines.
Lines(content) ==
  LET pieces == SplitOn(content, 10)
  IN  SubSeq(pieces, 1, Len(pieces) - 1)

\* C6: the content written by Start(); N Sample(...) calls; Stop() is N+1
\* newline-terminated lines of exactly 7 tab-separated columns each, the
\* first line being the fixed header.
C6_Original ==
  \A i \in 1..Len(streams) :
    streams[i].closed
    => LET content == streams[i].content
           lines == Lines(content)
       IN  /\ content # <<>>
           /\ content[Len(content)] = 10
           /\ Len(lines) = streams[i].samples + 1
           /\ \A l \in 1..Len(lines) : Len(SplitOn(lines[l], 9)) = 7
           /\ lines[1] =
                Utf8Encode(SubSeq(FILE_HEADER, 1, Len(FILE_HEADER) - 1))

\* C7: Sample while the stream is absent fails with an error, writes
\* nothing, and leaves the measurements, the stream reference and startTime
\* as they are.
C7_SampleWithoutStreamFails ==
  [][(CallOf("Sample") /\ sample_file = None)
     => /\ lastCall'.result = "AttributeError"
        /\ lastCall'.written = <<>>
        /\ UNCHANGED <<profile_measurements, sample_file, start_time,
                       streams>>]_vars

\* Sample failed after a Stop, with a closed stream and a measurement for
\* the sampled name in place.
C7_Witness ==
  /\ lastCall.op = "Sample"
  /\ lastCall.result = "AttributeError"
  /\ sample_file = None
  /\ session.stopped
  /\ streams # <<>>
  /\ lastCall.profile_name \in DOMAIN profile_measurements

\* C8: StopTiming(n) for a name n that was never started raises nothing,
\* does not put n in the map and leaves the measurements, the stream and
\* what was written as they are.
C8_StopTimingUnknownIsNoOp ==
  [][(CallOf("StopTiming") /\ cycles[lastCall'.profile_name].phase = "none")
     => /\ lastCall'.result = "ok"
        /\ lastCall'.profile_name \notin DOMAIN profile_measurements'
        /\ UNCHANGED <<profile_measurements, sample_file, start_time,
                       streams>>]_vars

\* StopTiming was called for a name never started, another name having a
\* measurement and the stream being open.
C8_Witness ==
  /\ lastCall.op = "StopTiming"
  /\ lastCall.result = "ok"
  /\ cycles[lastCall.profile_name].phase = "none"
  /\ lastCall.profile_name \notin DOMAIN profile_measurements
  /\ DOMAIN profile_measurements # {}
  /\ sample_file # None

\* C9 as stated: once Stop has stopped the profiler, no later operation
\* brings it back to started with an open stream.
C9_Original ==
  session.stopped => sample_file = None

\* C9 amended: a successful Start makes the stream present and open, Stop
\* makes it absent and closed, no other operation changes the stream
\* reference; Start is not guarded, so a Start after a Stop starts the
\* profiler again.
C9_Lifecycle ==
  [][/\ (CallOf("Start") /\ lastCall'.result = "ok")
        => /\ sample_file' # None
           /\ sample_file' # sample_file
           /\ ~streams'[sample_file'].closed
     /\ (CallOf("Stop") /\ sample_file # None)
        => /\ sample_file' = None
           /\ streams'[sample_file].closed
     /\ sample_file' # sample_file
        => \/ CallOf("Start") /\ lastCall'.result = "ok"
           \/ CallOf("Stop") /\ lastCall'.result = "ok"]_vars

\* The profiler was stopped and then started again: its stream is open.
C9_Witness ==
  /\ session.stopped
  /\ sample_file # None
  /\ ~streams[sample_file].closed
  /\ \E i \in 1..Len(streams) : streams[i].closed

\* C10: in every reachable state the stream reference is present exactly
\* when the last successful call among Start and Stop is a Start; it then
\* names an open stream.
C10_StreamPresentIffStarted ==
  /\ sample_file # None <=> session.last = "Start"
  /\ sample_file # None
     => /\ sample_file \in 1..Len(streams)
        /\ ~streams[sample_file].closed

\* A Sample, StartTiming or StopTiming call was made between Start and Stop
\* and the stream is still present; before, a session was stopped.
C10_Witness ==
  /\ lastCall.op \in {"Sample", "StartTiming", "StopTiming"}
  /\ session.last = "Start"
  /\ session.stopped
  /\ sample_file # None

\* C11: the set of profile names in the map only grows: a name in the map
\* before a step (a failing call and a Start after a Stop included) is in
\* the map after it.
C11_NamesOnlyGrow ==
  [][DOMAIN profile_measurements \subseteq DOMAIN profile_measurements']_vars

\* A name put in the map before the first Start is still in it after a Stop
\* followed by another Start.
C11_Witness ==
  /\ DOMAIN profile_measurements # {}
  /\ session.stopped
  /\ lastCall = PlainCall("Start", "ok")

\* bs begins with prefix.
StartsWith(bs, prefix) ==
  Len(prefix) <= Len(bs) /\ SubSeq(bs, 1, Len(prefix)) = prefix

\* The columns of a record line that repeat the arguments of Sample: Name,
\* Operation, Description, Data size and Compressed data size.
ArgumentColumns(line) ==
  LET fields == SplitOn(line, 9)
  IN  IF Len(fields) # 7 THEN <<>>
      ELSE <<fields[2], fields[3], fields[4], fields[6], fields[7]>>

\* C13: between Start and Stop the output is append-only and ordered: what
\* a stream holds stays a prefix of what it holds later, a new stream holds
\* the header line alone, each successful Sample adds exactly one line,
\* after all the lines written so far, that carries the arguments of the
\* call, and no other call adds anything.
C13_Original ==
  [][/\ \A i \in 1..Len(streams) :
          /\ i <= Len(streams')
          /\ StartsWith(streams'[i].content, streams[i].content)
          /\ streams'[i].content # streams[i].content
             => /\ CallOf("Sample")
                /\ lastCall'.result = "ok"
                /\ i = sample_file
     /\ (CallOf("Start") /\ lastCall'.result = "ok")
        => Lines(streams'[sample_file'].content) =
             << Utf8Encode(SubSeq(FILE_HEADER, 1, Len(FILE_HEADER) - 1)) >>
     /\ (CallOf("Sample") /\ lastCall'.result = "ok")
        => LET old == Lines(streams[sample_file].content)
               new == Lines(streams'[sample_file].content)
               args == lastCall'.args
           IN  /\ Len(new) = Len(old) + 1
               /\ SubSeq(new, 1, Len(old)) = old
               /\ ArgumentColumns(new[Len(new)]) =
                    << Utf8Encode(lastCall'.profile_name),
                       Utf8Encode(args[1]), Utf8Encode(args[2]),
                       Utf8Encode(FormatD(args[3])),
                       Utf8Encode(FormatD(args[4])) >>]_vars

\* C14: StopTiming(n) for a name in the map adds the monotonic time of the
\* call minus the monotonic time of the most recent StartTiming(n) to the
\* totalCPUTime of n and changes neither the reference nor startSampleTime;
\* so after StopTiming calls at t1, ..., tk that follow one StartTiming(n)
\* at t0 the totalCPUTime is the sum of the ti - t0.
C14_StopTimingAccumulates ==
  [][(CallOf("StopTiming")
      /\ lastCall'.profile_name \in DOMAIN profile_measurements)
     => LET n == lastCall'.profile_name
            before == profile_measurements[n]
            after == profile_measurements'[n]
        IN  /\ lastCall'.result = "ok"
            /\ after.total_cpu_time =
                 before.total_cpu_time + (perf - cycles[n].t0)
            /\ after.start_cpu_time = before.start_cpu_time
            /\ after.start_sample_time = before.start_sample_time
            /\ after.total_cpu_time = cycles'[n].stopSum]_vars

\* StopTiming(n) was called twice after one StartTiming(n), at two different
\* times later than the StartTiming.
C14_Witness ==
  /\ lastCall.op = "StopTiming"
  /\ LET n == lastCall.profile_name
     IN  /\ n \in DOMAIN profile_measurements
         /\ cycles[n].stops = 2
         /\ perf > cycles[n].t0
         /\ cycles[n].stopSum > perf - cycles[n].t0
         /\ cycles[n].stopSum < 2 * (perf - cycles[n].t0)

\* C15: StartTiming(n) and StopTiming(n) leave the startSampleTime, the
\* totalCPUTime and the monotonic reference of every other name as they
\* are.
C15_TimingPerName ==
  [][(CallOf("StartTiming") \/ CallOf("StopTiming"))
     => \A m \in DOMAIN profile_measurements \ {lastCall'.profile_name} :
          /\ m \in DOMAIN profile_measurements'
          /\ profile_measurements'[m] = profile_measurements[m]]_vars

\* StartTiming or StopTiming was called for one name, later than the
\* StartTiming of the other name, which has accumulated time.
C15_Witness ==
  /\ lastCall.op \in {"StartTiming", "StopTiming"}
  /\ lastCall.profile_name \in DOMAIN profile_measurements
  /\ \E m \in DOMAIN profile_measurements \ {lastCall.profile_name} :
       /\ profile_measurements[m].total_cpu_time > 0
       /\ profile_measurements[m].start_cpu_time < perf
       /\ profile_measurements[m] # profile_measurements[lastCall.profile_name]

\* The streams the profiler opened, does not hold any more and never closed.
LeakedStreams ==
  {i \in 1..Len(streams) : i # sample_file /\ ~streams[i].closed}

\* C16: Start while a stream is open is not rejected: it opens a second
\* stream and overwrites the stream reference without closing the first;
\* no later operation closes the first stream or holds it again, Stop
\* closing the stream the reference names and no other; so after Start;
\* Start; Stop one opened stream remains unclosed.
C16_SecondStartLeaksStream ==
  [][/\ (CallOf("Start") /\ lastCall'.result = "ok" /\ sample_file # None)
        => /\ Len(streams') = Len(streams) + 1
           /\ sample_file' = Len(streams')
           /\ ~streams'[sample_file'].closed
           /\ ~streams'[sample_file].closed
           /\ sample_file \in LeakedStreams'
     /\ LeakedStreams \subseteq LeakedStreams'
     /\ \A i \in 1..Len(streams) :
          (~streams[i].closed /\ streams'[i].closed)
          => CallOf("Stop") /\ i = sample_file]_vars

\* After Start; Start; Stop the first stream is open and the second closed.
C16_Witness ==
  /\ Len(streams) = 2
  /\ sample_file = None
  /\ lastCall = PlainCall("Stop", "ok")
  /\ ~streams[1].closed
  /\ streams[2].closed
  /\ LeakedStreams = {1}

\* C17: when opening the output file fails in Start, the call fails and
\* the stream reference, startTime, the streams and what they hold, and
\* the measurements are as before; a Sample that follows on a profiler
\* with no stream fails.
C17_FailedStartChangesNothing ==
  [][/\ (CallOf("Start") /\ lastCall'.result # "ok")
        => /\ lastCall'.result = "OSError"
           /\ UNCHANGED <<sample_file, start_time, streams,
                          profile_measurements>>
     /\ (/\ lastCall.op = "Start"
         /\ lastCall.result # "ok"
         /\ sample_file = None
         /\ CallOf("Sample"))
        => /\ lastCall'.result = "AttributeError"
           /\ UNCHANGED streams]_vars

\* Start failed on a profiler that was never started, a name being timed and
\* time having passed since the construction.
C17_Witness ==
  /\ lastCall = PlainCall("Start", "OSError")
  /\ sample_file = None
  /\ start_time = None
  /\ streams = <<>>
  /\ wall > WallEpoch
  /\ DOMAIN profile_measurements # {}

\* C18: with one caller, every measurement in the map has been started: its
\* monotonic reference, startSampleTime and totalCPUTime are set and
\* totalCPUTime is not negative; no call fails for formatting or adding an
\* unset value.
C18_MeasurementsAreStarted ==
  /\ \A n \in DOMAIN profile_measurements :
       /\ profile_measurements[n].start_cpu_time # None
       /\ profile_measurements[n].start_sample_time # None
       /\ profile_measurements[n].total_cpu_time # None
       /\ profile_measurements[n].total_cpu_time >= 0
       /\ profile_measurements[n].start_cpu_time <= perf
  /\ lastCall.result # "TypeError"

\* A name was started, stopped with accumulated time and sampled.
C18_Witness ==
  /\ lastCall.op = "Sample"
  /\ lastCall.result = "ok"
  /\ lastCall.profile_name \in DOMAIN profile_measurements
  /\ profile_measurements[lastCall.profile_name].total_cpu_time > 0
  /\ cycles[lastCall.profile_name].stops >= 1
  /\ ProcessingTimeField(lastCall.written) # ZeroSeconds

\* C19: StartTiming and StopTiming succeed whatever the state of the stream
\* and leave the stream reference, startTime and the streams as they are;
\* Start and Stop leave the measurements as they are; a Sample on a stream
\* started after the timing writes the time accumulated before.
C19_TimingIgnoresStream ==
  [][/\ (CallOf("StartTiming") \/ CallOf("StopTiming"))
        => /\ lastCall'.result = "ok"
           /\ UNCHANGED <<sample_file, start_time, streams>>
     /\ (CallOf("Start") \/ CallOf("Stop"))
        => UNCHANGED profile_measurements
     /\ (/\ CallOf("Sample")
         /\ lastCall'.result = "ok"
         /\ cycles[lastCall'.profile_name].phase # "none")
        => ProcessingTimeField(lastCall'.written) =
             Utf8Encode(FormatF(cycles[lastCall'.profile_name].stopSum))]_vars

\* A name was timed before the profiler was started and sampled after a
\* Start: the record carries the time accumulated before the Start.
C19_Witness ==
  /\ lastCall.op = "Sample"
  /\ lastCall.result = "ok"
  /\ lastCall.profile_name \in DOMAIN profile_measurements
  /\ LET m == profile_measurements[lastCall.profile_name]
     IN  /\ m.total_cpu_time > 0
         /\ start_time > m.start_sample_time
         /\ start_time >= m.start_sample_time + m.total_cpu_time
         /\ ProcessingTimeField(lastCall.written) =
              Utf8Encode(FormatF(m.total_cpu_time))
         /\ ProcessingTimeField(lastCall.written) # ZeroSeconds

\* A measurement of the map with a field that SampleStart has not set yet.
Unset(n) ==
  \/ profile_measurements[n].start_cpu_time = None
  \/ profile_measurements[n].start_sample_time = None
  \/ profile_measurements[n].total_cpu_time = None

\* The second caller is inside StartTiming(n), after the insertion.
InsideStartTiming(n) == caller.pc # "idle" /\ caller.profile_name = n

\* C12: with two callers and no lock a StopTiming(n) or Sample(n) of one
\* caller meets a measurement whose startSampleTime or totalCPUTime is
\* unset, and it does so only between the statements of the StartTiming(n)
\* of the other caller that creates n; when no StartTiming is in progress
\* no measurement has an unset field.
C12_UnsetOnlyInsideStartTiming ==
  [][/\ \A n \in DOMAIN profile_measurements' :
          Unset(n)' => InsideStartTiming(n)'
     /\ (calls' # calls /\ lastCall'.result = "TypeError")
        => /\ lastCall'.op \in {"Sample", "StopTiming"}
           /\ lastCall'.profile_name \in DOMAIN profile_measurements
           /\ Unset(lastCall'.profile_name)
           /\ InsideStartTiming(lastCall'.profile_name)
           /\ UNCHANGED <<profile_measurements, streams>>]_vars

\* During one StartTiming(n) of the second caller, a StopTiming(n) and a
\* Sample(n) of the first caller met the unset totalCPUTime.
C12_Witness ==
  /\ caller.pc # "idle"
  /\ caller.seen = {"Sample", "StopTiming"}
  /\ lastCall.result = "TypeError"
  /\ lastCall.profile_name = caller.profile_name
  /\ profile_measurements[caller.profile_name].total_cpu_time = None

====
